---- MODULE Spec2Model ----
(***************************************************************************)
(* ParallelPolicy (examples/gameOfTag/parallel_policy.py): a pool of N     *)
(* worker processes, each owning one Actor (policy/environment), driven    *)
(* over one duplex pipe per worker plus one shared error queue.            *)
(*                                                                         *)
(* The file keeps the worker loop, the waits and the tail of the           *)
(* constructor as commented-out text; the model reads that text as the     *)
(* program, and reads each name by the parameter it is evidently bound to  *)
(* (self.env_constructors is the constructor mapping, pipe the child's end *)
(* of the pipe).  _poll, _raise_if_errors, _assert_is_running, the *_async *)
(* calls and close are not in the file; they are modelled from the         *)
(* specification's description of them.                                    *)
(*                                                                         *)
(* Python's pipe semantics: a recv on an empty pipe whose other end is     *)
(* closed raises EOFError; a recv on an empty open pipe blocks.  A send    *)
(* is buffered by the pipe: a command written while the worker is on its   *)
(* way out (between its last reply and pipe.close()) is never read.        *)
(***************************************************************************)
EXTENDS Integers, Sequences, FiniteSets, TLC

\* ------------------------------------------------------------------ bounds
\* The constructor mapping the program builds has two entries, predator and
\* prey (train.py, lines 98-107).
N == 2
MaxCalls == 3

Workers == 0 .. (N - 1)

\* The constructor mapping's entries: a callable that builds the Actor, a
\* callable that raises, or a value that is not callable.
CtorKinds == {"ok", "raises", "notcallable"}
\* Observation/action space descriptors an Actor may report.
Spaces == {"A", "B"}

\* No command in progress.
NoCmd == [cmd |-> "none", b |-> -1]
NoCall == [op |-> "none", pre |-> "DEFAULT", out |-> "none",
           res |-> <<>>, took |-> <<>>, names |-> {}, prev |-> <<"none", "none">>,
           batch |-> 0]

VARIABLES
    policy_constructors, \* [Workers -> CtorKinds]: the constructor mapping
    spaces,              \* [Workers -> Spaces]: each Actor's (obs, action) space
    auto_reset,          \* BOOLEAN: the workers' auto_reset parameter
    ppc,                 \* where the pool's caller is
    spawned,             \* number of processes started (len(self.processes))
    nready,              \* ready replies the constructor has received
    async_state,         \* self._state: DEFAULT | WAITING_RESET | WAITING_STEP
    closed,              \* the pool has been closed
    to_worker,           \* [Workers -> Seq(Command)]: parent -> child
    to_parent,           \* [Workers -> Seq(Reply)]: child -> parent
    child_closed,        \* [Workers -> BOOLEAN]: the child's end is closed
    error_queue,         \* Seq of [index, kind]: reports not yet drained
    wpc,                 \* [Workers -> worker position]
    cur,                 \* [Workers -> Command]: the command being executed
    exc,                 \* [Workers -> error kind caught by the worker]
    env_closed,          \* [Workers -> BOOLEAN]: env.close() has been called
    actor,               \* [Workers -> what the Actor last did]
    got,                 \* [Workers -> Nat]: commands received
    sent,                \* [Workers -> Nat]: replies sent for received commands
    reported,            \* set of [index, kind]: every report ever put
    ncalls,              \* pool calls made so far
    last                 \* the last pool call: operation, outcome, result

vars == <<policy_constructors, spaces, auto_reset, ppc, spawned, nready,
          async_state, closed, to_worker, to_parent, child_closed, error_queue,
          wpc, cur, exc, env_closed, actor, got, sent, reported, ncalls, last>>

inputs == <<policy_constructors, spaces, auto_reset>>
poolv == <<ppc, spawned, nready, async_state, closed, ncalls, last>>
workerv == <<wpc, cur, exc, env_closed, actor, got, sent, reported>>

Init ==
    /\ policy_constructors \in [Workers -> CtorKinds]
    \* the first Actor's spaces are called "A"; the others agree or differ
    /\ spaces \in {f \in [Workers -> Spaces] : f[0] = "A"}
    /\ auto_reset \in BOOLEAN
    /\ ppc = "new"
    /\ spawned = 0
    /\ nready = 0
    /\ async_state = "DEFAULT"
    /\ closed = FALSE
    /\ to_worker = [i \in Workers |-> <<>>]
    /\ to_parent = [i \in Workers |-> <<>>]
    /\ child_closed = [i \in Workers |-> FALSE]
    /\ error_queue = <<>>
    /\ wpc = [i \in Workers |-> "unborn"]
    /\ cur = [i \in Workers |-> NoCmd]
    /\ exc = [i \in Workers |-> "none"]
    /\ env_closed = [i \in Workers |-> FALSE]
    /\ actor = [i \in Workers |-> "none"]
    /\ got = [i \in Workers |-> 0]
    /\ sent = [i \in Workers |-> 0]
    /\ reported = {}
    /\ ncalls = 0
    /\ last = NoCall

\* ------------------------------------------------------------- the worker

\* A Reply: (payload, success).  w, b and kind stand for the payload: which
\* worker produced it, in answer to which command, of which variant.
Reply(ok, i, b, kind, val) ==
    [ok |-> ok, w |-> i, b |-> b, kind |-> kind, val |-> val]

\* Line 259: pipe.send((None, True)) once the Actor is built.
ReadyReply(i) == Reply(TRUE, i, 0, "ready", "none")

\* Lines 291, 294: pipe.send((None, False)).
FailReply(i, b) == Reply(FALSE, i, b, "fail", "none")

\* The commands the loop knows (lines 267-286).
Known == {"reset", "step", "seed", "close", "_get_spaces"}

\* What env.step hands back (line 270), as far as the worker looks at it or
\* passes it on: done["__all__"], whether every sub-agent's own flag is set,
\* and whether the Actor put the observation of this step into info.
StepOutcomes ==
    {[all |-> FALSE, agents |-> FALSE, info |-> "step_obs"],
     [all |-> FALSE, agents |-> TRUE, info |-> "step_obs"],
     [all |-> TRUE, agents |-> TRUE, info |-> "step_obs"],
     [all |-> TRUE, agents |-> TRUE, info |-> "none"]}

\* Commands other than step have nothing of the kind.
NoOutcome == [all |-> FALSE, agents |-> FALSE, info |-> "none"]

\* The outcomes the Actor call of a command may have.
Outcomes(c) == IF c.cmd = "step" THEN StepOutcomes ELSE {NoOutcome}

\* A worker that also resets when every sub-agent reports done.
auto_resets_on_agents(o) == (o.all \/ o.agents) /\ auto_reset

\* Line 272: `if done["__all__"] and auto_reset`.
auto_resets(o) == o.all /\ auto_reset

\* A worker that calls env.reset() and drops what it returns.
step_observation_kept(o) == "step_obs"

\* Lines 270-277: the observation a step replies with: the one env.step
\* returned, or the one env.reset() returned in its place.
step_observation(o) == IF auto_resets(o) THEN "reset_obs" ELSE "step_obs"

\* Line 278: pipe.send(((observation, reward, done, info), True)); reward,
\* done and info are those env.step returned.
step_payload(o) ==
    [obs |-> step_observation(o), reward |-> "step_reward",
     done |-> [all |-> o.all, agents |-> o.agents], info |-> o.info]

\* Lines 267-286: the reply a command gets when the Actor call returns.
OkReply(i, c, o) ==
    CASE c.cmd = "reset" -> Reply(TRUE, i, c.b, "reset", "none")
      [] c.cmd = "step" -> Reply(TRUE, i, c.b, "step", step_payload(o))
      [] c.cmd = "seed" -> Reply(TRUE, i, c.b, "seed", "none")
      [] c.cmd = "close" -> Reply(TRUE, i, c.b, "close", "none")
      [] c.cmd = "_get_spaces" -> Reply(TRUE, i, c.b, "spaces", spaces[i])

\* A _get_spaces branch that resets the Actor to read its spaces.
actor_after_spaces_reset(a, c, o) ==
    CASE c.cmd \in {"reset", "_get_spaces"} -> "fresh"
      [] c.cmd = "step" -> IF auto_resets(o) THEN "fresh"
                           ELSE IF o.all THEN "ended" ELSE "running"
      [] OTHER -> a

\* Lines 268, 270-277: what the Actor last did once the command's branch has
\* run: it was reset, it made a step, or it made the step that ended its
\* episode.  seed, close and _get_spaces leave the episode alone.
actor_after(a, c, o) ==
    CASE c.cmd = "reset" -> "fresh"
      [] c.cmd = "step" -> IF auto_resets(o) THEN "fresh"
                           ELSE IF o.all THEN "ended" ELSE "running"
      [] OTHER -> a

\* Commands whose branch calls into the Actor and so may raise.
MayRaise(c) == c.cmd \in {"reset", "step", "seed"}

\* Lines 252-259: build the Actor, then announce it.  The constructor call
\* is outside the try block: if it raises, the process dies with the
\* exception, nothing is reported, nothing is sent, and the operating system
\* closes the child's end of the pipe.
WorkerStart(i) ==
    /\ wpc[i] = "start"
    /\ IF policy_constructors[i] = "ok"
       THEN /\ to_parent' = [to_parent EXCEPT ![i] = Append(@, ReadyReply(i))]
            /\ wpc' = [wpc EXCEPT ![i] = "poll"]
            /\ actor' = [actor EXCEPT ![i] = "built"]
            /\ UNCHANGED child_closed
       ELSE /\ wpc' = [wpc EXCEPT ![i] = "crashed"]
            /\ child_closed' = [child_closed EXCEPT ![i] = TRUE]
            /\ UNCHANGED <<to_parent, actor>>
    /\ UNCHANGED <<inputs, poolv, to_worker, error_queue, cur, exc,
                   env_closed, got, sent, reported>>

\* Lines 264-266: poll, then recv the next command.
WorkerRecv(i) ==
    /\ wpc[i] = "poll"
    /\ to_worker[i] # <<>>
    /\ cur' = [cur EXCEPT ![i] = Head(to_worker[i])]
    /\ to_worker' = [to_worker EXCEPT ![i] = Tail(@)]
    /\ got' = [got EXCEPT ![i] = @ + 1]
    /\ wpc' = [wpc EXCEPT ![i] = "exec"]
    /\ UNCHANGED <<inputs, poolv, to_parent, child_closed, error_queue, exc,
                   env_closed, actor, sent, reported>>

\* A close branch without its break.
AfterReplyNoBreak(c) == "poll"

\* Where the loop goes after a command's reply: close breaks out of the
\* loop (line 284), every other command polls again.
AfterReply(c) == IF c.cmd = "close" THEN "finally" ELSE "poll"

\* A step branch that sends its reply before the auto-reset and again after it.
WorkerReplyTwice(i) ==
    /\ wpc[i] = "exec"
    /\ cur[i].cmd \in Known
    /\ \E o \in Outcomes(cur[i]) :
        /\ to_parent' = [to_parent EXCEPT ![i] =
                            IF cur[i].cmd = "step" /\ auto_resets(o)
                            THEN Append(Append(@, OkReply(i, cur[i], o)),
                                        OkReply(i, cur[i], o))
                            ELSE Append(@, OkReply(i, cur[i], o))]
        /\ sent' = [sent EXCEPT ![i] =
                        IF cur[i].cmd = "step" /\ auto_resets(o) THEN @ + 2
                        ELSE @ + 1]
        /\ actor' = [actor EXCEPT ![i] = actor_after(@, cur[i], o)]
    /\ wpc' = [wpc EXCEPT ![i] = AfterReply(cur[i])]
    /\ cur' = [cur EXCEPT ![i] = NoCmd]
    /\ UNCHANGED <<inputs, poolv, to_worker, child_closed, error_queue, exc,
                   env_closed, got, reported>>

\* Lines 267-286: the command's branch runs to its pipe.send.
WorkerReply(i) ==
    /\ wpc[i] = "exec"
    /\ cur[i].cmd \in Known
    /\ \E o \in Outcomes(cur[i]) :
        /\ to_parent' = [to_parent EXCEPT ![i] = Append(@, OkReply(i, cur[i], o))]
        /\ actor' = [actor EXCEPT ![i] = actor_after(@, cur[i], o)]
    /\ sent' = [sent EXCEPT ![i] = @ + 1]
    /\ wpc' = [wpc EXCEPT ![i] = AfterReply(cur[i])]
    /\ cur' = [cur EXCEPT ![i] = NoCmd]
    /\ UNCHANGED <<inputs, poolv, to_worker, child_closed, error_queue, exc,
                   env_closed, got, reported>>

\* A handler that goes straight to its failure reply.
CaughtUnreported(i, kind) ==
    /\ exc' = [exc EXCEPT ![i] = kind]
    /\ wpc' = [wpc EXCEPT ![i] = "reported"]
    /\ UNCHANGED <<error_queue, reported>>

\* The handler's first statement (lines 290, 293):
\* error_queue.put((index, kind, ...)).
Caught(i, kind) ==
    /\ exc' = [exc EXCEPT ![i] = kind]
    /\ error_queue' = Append(error_queue, [index |-> i, kind |-> kind])
    /\ reported' = reported \cup {[index |-> i, kind |-> kind]}
    /\ wpc' = [wpc EXCEPT ![i] = "reported"]

\* The exception class the report carries (sys.exc_info()[0], line 293):
\* KeyError for an unknown command (line 288), the Actor's own otherwise.
raised_kind(c) == IF c.cmd \in Known THEN "Exception" ELSE "KeyError"

\* Lines 268, 271, 280, 288, 292-293: the Actor call raises, or the command
\* is unknown (KeyError); `except Exception` catches it and reports it.
WorkerRaise(i) ==
    /\ wpc[i] = "exec"
    /\ MayRaise(cur[i]) \/ cur[i].cmd \notin Known
    /\ Caught(i, raised_kind(cur[i]))
    /\ UNCHANGED <<inputs, poolv, to_worker, to_parent, child_closed, cur,
                   env_closed, actor, got, sent>>

\* The worker process an interrupt is delivered to: the last one.  The first
\* one is the one that is sent unknown commands; an Actor exception can end
\* either.
InterruptTargets == {N - 1}

\* A KeyboardInterrupt handler without its error_queue.put.
WorkerInterruptSilent(i) ==
    /\ wpc[i] \in {"poll", "exec"}
    /\ exc' = [exc EXCEPT ![i] = "KeyboardInterrupt"]
    /\ wpc' = [wpc EXCEPT ![i] = "reported"]
    /\ UNCHANGED <<inputs, poolv, to_worker, to_parent, child_closed, cur,
                   env_closed, actor, got, sent, error_queue, reported>>

\* Lines 289-290: a KeyboardInterrupt delivered while the worker is inside
\* the try block, idle in its poll or in the middle of a command.
WorkerInterrupt(i) ==
    /\ wpc[i] \in {"poll", "exec"}
    /\ Caught(i, "KeyboardInterrupt")
    /\ UNCHANGED <<inputs, poolv, to_worker, to_parent, child_closed, cur,
                   env_closed, actor, got, sent>>

\* A handler that sends its failure reply and goes back to the loop.
WorkerFailReplyContinue(i) ==
    /\ wpc[i] = "reported"
    /\ to_parent' = [to_parent EXCEPT ![i] = Append(@, FailReply(i, cur[i].b))]
    /\ sent' = [sent EXCEPT ![i] = IF cur[i] = NoCmd THEN @ ELSE @ + 1]
    /\ cur' = [cur EXCEPT ![i] = NoCmd]
    /\ wpc' = [wpc EXCEPT ![i] = "poll"]
    /\ UNCHANGED <<inputs, poolv, to_worker, child_closed, error_queue, exc,
                   env_closed, actor, got, reported>>

\* Lines 291, 294: pipe.send((None, False)).  It answers the command in
\* progress, if there is one.
WorkerFailReply(i) ==
    /\ wpc[i] = "reported"
    /\ to_parent' = [to_parent EXCEPT ![i] = Append(@, FailReply(i, cur[i].b))]
    /\ sent' = [sent EXCEPT ![i] = IF cur[i] = NoCmd THEN @ ELSE @ + 1]
    /\ cur' = [cur EXCEPT ![i] = NoCmd]
    /\ wpc' = [wpc EXCEPT ![i] = "finally"]
    /\ UNCHANGED <<inputs, poolv, to_worker, child_closed, error_queue, exc,
                   env_closed, actor, got, reported>>

\* Lines 295-297: env.close(); pipe.close(); the process ends.
WorkerFinally(i) ==
    /\ wpc[i] = "finally"
    /\ env_closed' = [env_closed EXCEPT ![i] = TRUE]
    /\ child_closed' = [child_closed EXCEPT ![i] = TRUE]
    /\ wpc' = [wpc EXCEPT ![i] = "exited"]
    /\ UNCHANGED <<inputs, poolv, to_worker, to_parent, error_queue, cur,
                   exc, actor, got, sent, reported>>

WorkerStep(i) ==
    \/ WorkerStart(i)
    \/ WorkerRecv(i)
    \/ WorkerReply(i)
    \/ WorkerRaise(i)
    \/ WorkerFailReply(i)
    \/ WorkerFinally(i)


\* --------------------------------------------------------------- the pipes

\* Workers whose pipe holds no reply for the parent.
Empties == {i \in Workers : to_parent[i] = <<>>}

\* The first pipe, in index order, that holds no reply (N when all do).
FirstEmpty == IF Empties = {} THEN N
              ELSE CHOOSE i \in Empties : \A j \in Empties : i <= j

\* `[pipe.recv() for pipe in self.parent_pipes]` (lines 102, 126, 159, 199,
\* 214) reads the pipes in index order, blocking on each.  It comes to an
\* end when every pipe holds a reply, or when the first pipe without one is
\* at end of file (recv raises EOFError there).
RecvEnds == IF Empties = {} THEN TRUE ELSE child_closed[FirstEmpty]

\* The reply recv returns for position k (1-based) of the comprehension.
recv_at(k) == Head(to_parent[k - 1])

\* A comprehension that collects the replies it read last to first.
recv_all_reversed == [k \in 1 .. FirstEmpty |-> recv_at(FirstEmpty + 1 - k)]

\* The replies the comprehension has consumed when it ends, in index order.
recv_all == [k \in 1 .. FirstEmpty |-> recv_at(k)]

\* The pipes after the comprehension.
after_recv ==
    [i \in Workers |-> IF i < FirstEmpty THEN Tail(to_parent[i])
                       ELSE to_parent[i]]

\* self._poll(timeout): every worker channel holds a reply.
poll == Empties = {}

\* The workers whose reply, among `replies`, carries success = False.
Failing(replies) == {k - 1 : k \in {j \in 1 .. Len(replies) : ~replies[j].ok}}

\* self._raise_if_errors(successes): raises when a success flag is False ...
raise_if_errors(replies) == Failing(replies) # {}

\* ... after draining the error queue; the aggregated error names the worker
\* index of every report drained.
drained_names == {error_queue[k].index : k \in 1 .. Len(error_queue)}

\* pipe.send((command, data)) to every worker; b numbers the batch.
send_all(command, b) ==
    [i \in Workers |-> Append(to_worker[i], [cmd |-> command, b |-> b])]

\* What the record of a call keeps of each reply: whose it is, which command
\* it answers, its variant and its success flag.  The payload is whatever
\* the pipe held; the record does not repeat it.
seen(replies) ==
    [k \in 1 .. Len(replies) |->
        [ok |-> replies[k].ok, w |-> replies[k].w, b |-> replies[k].b,
         kind |-> replies[k].kind]]

\* The record of a call.  Its batch field is the number of the newest batch
\* the pool has sent to its workers (0 before the first).
Call(op, out, res, took, names) ==
    [op |-> op, pre |-> IF closed THEN "CLOSED" ELSE async_state, out |-> out,
     res |-> seen(res), took |-> seen(took), names |-> names,
     prev |-> <<last.op, last.out>>, batch |-> last.batch]

\* The record of a call that sent batch b to the workers.
Sending(call, b) == [call EXCEPT !.batch = b]

\* A call that blocks is recorded as pending when it starts ...
Pending(op) == Call(op, "pending", <<>>, <<>>, {})

\* ... and completed, in the same record, when it returns.
Return(out, res, took, names) ==
    [last EXCEPT !.out = out, !.res = seen(res), !.took = seen(took),
                 !.names = names]

\* ----------------------------------------------------------- construction

\* A constructor that starts the processes without looking at the mapping.
all_callable_unchecked == TRUE

\* Lines 63-67: every entry of the mapping must be callable.
all_callable == \A i \in Workers : policy_constructors[i] # "notcallable"

CtorValidate ==
    /\ ppc = "new"
    /\ IF all_callable
       THEN /\ ppc' = "spawn"
            /\ UNCHANGED last
       ELSE /\ ppc' = "failed"
            /\ last' = Call("init", "TypeError", <<>>, <<>>, {})
    /\ UNCHANGED <<inputs, spawned, nready, async_state, closed, ncalls, to_worker,
                   to_parent, child_closed, error_queue, workerv>>

\* A constructor that returns as soon as the processes are started.
return_after_spawn == "run"

\* Lines 101-106: with every process started, the constructor goes on to
\* wait for the workers; it does not return yet.
after_spawn == "wait_ready"

\* Lines 78-99: one pipe and one started process per entry of the mapping.
CtorSpawn ==
    /\ ppc = "spawn"
    /\ wpc' = [wpc EXCEPT ![spawned] = "start"]
    /\ spawned' = spawned + 1
    /\ ppc' = IF spawned + 1 = N THEN after_spawn ELSE "spawn"
    /\ UNCHANGED <<inputs, nready, async_state, closed, ncalls, last,
                   to_worker, to_parent, child_closed, error_queue, cur, exc,
                   env_closed, actor, got, sent, reported>>

\* Line 102: the ready replies, flagged success, among those received.
ready_count(replies) ==
    Cardinality({k \in 1 .. Len(replies) :
                    replies[k].ok /\ replies[k].kind = "ready"})

\* What the constructor does with the ready replies (lines 102-103).
ready_outcome(replies) ==
    IF Len(replies) < N THEN "EOFError"
    ELSE IF raise_if_errors(replies) THEN "WorkerError"
    ELSE "ok"

\* Lines 101-106 and 212-213: wait for every worker's ready reply, then ask
\* every worker for its spaces.
CtorReady ==
    /\ ppc = "wait_ready"
    /\ RecvEnds
    /\ to_parent' = after_recv
    /\ nready' = ready_count(recv_all)
    /\ LET out == ready_outcome(recv_all) IN
       IF out = "ok"
       THEN /\ ppc' = "wait_spaces"
            /\ to_worker' = send_all("_get_spaces", 0)
            /\ UNCHANGED <<last, error_queue>>
       ELSE /\ ppc' = "failed"
            /\ last' = Call("init", out, <<>>, recv_all,
                            IF out = "WorkerError" THEN drained_names ELSE {})
            /\ error_queue' = IF out = "WorkerError" THEN <<>> ELSE error_queue
            /\ UNCHANGED to_worker
    /\ UNCHANGED <<inputs, spawned, async_state, closed, ncalls, child_closed,
                   workerv>>

\* A _get_spaces that returns the first worker's spaces without comparing.
spaces_agree_unchecked(replies) == TRUE

\* Lines 217-226: every worker's spaces must equal the first worker's.
spaces_agree(replies) == \A k \in 1 .. Len(replies) : replies[k].val = replies[1].val

\* Lines 214-228, called from line 106.
spaces_outcome(replies) ==
    IF Len(replies) < N THEN "EOFError"
    ELSE IF raise_if_errors(replies) THEN "WorkerError"
    ELSE IF ~spaces_agree(replies) THEN "RuntimeError"
    ELSE "ok"

CtorSpaces ==
    /\ ppc = "wait_spaces"
    /\ RecvEnds
    /\ to_parent' = after_recv
    /\ LET out == spaces_outcome(recv_all) IN
       /\ ppc' = IF out = "ok" THEN "run" ELSE "failed"
       /\ last' = Call("init", out, <<>>, recv_all,
                       IF out = "WorkerError" THEN drained_names ELSE {})
       /\ error_queue' = IF out = "WorkerError" THEN <<>> ELSE error_queue
    /\ UNCHANGED <<inputs, spawned, nready, async_state, closed, ncalls, to_worker,
                   child_closed, workerv>>


\* ------------------------------------------------------- the batched calls

\* The pool exists and its caller is not inside a call.
CanCall == ppc = "run" /\ ncalls < MaxCalls

\* self._state while a batch of the given command is pending.
Waiting(command) == IF command = "reset" THEN "WAITING_RESET" ELSE "WAITING_STEP"

\* An _assert_is_running that lets a closed pool through.
assert_is_running_skipped == "pass"

\* self._assert_is_running(): a closed pool refuses every operation.
assert_is_running == IF closed THEN "ClosedError" ELSE "pass"

\* An async call that does not look at the pending batch.
assert_idle_skipped == "pass"

\* *_async asserts that no batch is pending.
assert_idle == IF async_state # "DEFAULT" THEN "AlreadyPendingCallError" ELSE "pass"

\* What reset_async / step_async / seed decide on entry.
async_entry ==
    IF assert_is_running # "pass" THEN assert_is_running ELSE assert_idle

\* reset_async, step_async: send the command to every worker and record the
\* pending batch.
Async(command) ==
    /\ CanCall
    /\ ncalls' = ncalls + 1
    /\ IF async_entry = "pass"
       THEN /\ to_worker' = send_all(command, ncalls + 1)
            /\ async_state' = Waiting(command)
            /\ last' = Sending(Call(command \o "_async", "ok", <<>>, <<>>, {}),
                                ncalls + 1)
       ELSE /\ last' = Call(command \o "_async", async_entry, <<>>, <<>>, {})
            /\ UNCHANGED <<to_worker, async_state>>
    /\ UNCHANGED <<inputs, ppc, spawned, nready, closed, to_parent, child_closed,
                   error_queue, workerv>>

ResetAsync == Async("reset")

StepAsync == Async("step")

\* A step_wait that kept reset_wait's comparison.
assert_async_called_copied(command) ==
    IF async_state # "WAITING_RESET" THEN "NoAsyncCallError" ELSE "pass"

\* Lines 146-150, 186-190: the wait must match the pending batch.
assert_async_called(command) ==
    IF async_state # Waiting(command) THEN "NoAsyncCallError" ELSE "pass"

\* Lines 145-150, 185-190: the checks a wait makes before it touches a pipe.
wait_entry(command) ==
    IF assert_is_running # "pass" THEN assert_is_running
    ELSE assert_async_called(command)

\* A timeout that leaves the batch pending.
state_kept_after_timeout == async_state

\* Lines 152-153, 192-193: the state a timed out wait leaves.
state_after_timeout == "DEFAULT"

\* A timeout that reads the replies that did arrive.
pipes_read_after_timeout ==
    [i \in Workers |-> IF to_parent[i] = <<>> THEN <<>> ELSE Tail(to_parent[i])]

\* Lines 152-157, 192-197: the pipes a timed out wait leaves.
pipes_after_timeout == to_parent

\* A wait that goes back to DEFAULT before it looks at the success flags.
state_reset_after_recv(replies) == "DEFAULT"

\* Lines 160-161, 200-201: the state after the replies have been read;
\* _raise_if_errors raises before the assignment is reached.
state_after_recv(replies) ==
    IF raise_if_errors(replies) THEN async_state ELSE "DEFAULT"

\* A wait that hands over what it read whatever the success flags say.
wait_result_unchecked(replies) == replies

\* Lines 159-163, 199-209: what the wait hands to its caller.
wait_result(replies) == IF raise_if_errors(replies) THEN <<>> ELSE replies

\* reset_wait, step_wait called in a state that fails the entry checks.
WaitRejected(command) ==
    /\ CanCall
    /\ wait_entry(command) # "pass"
    /\ ncalls' = ncalls + 1
    /\ last' = Call(command \o "_wait", wait_entry(command), <<>>, <<>>, {})
    /\ UNCHANGED <<inputs, ppc, spawned, nready, async_state, closed, to_worker,
                   to_parent, child_closed, error_queue, workerv>>

\* reset_wait, step_wait with a timeout that runs out before every worker
\* has replied.
WaitTimeout(command) ==
    /\ CanCall
    /\ wait_entry(command) = "pass"
    /\ ~poll
    /\ ncalls' = ncalls + 1
    /\ async_state' = state_after_timeout
    /\ to_parent' = pipes_after_timeout
    /\ last' = Call(command \o "_wait", "TimeoutError", <<>>, <<>>, {})
    /\ UNCHANGED <<inputs, ppc, spawned, nready, closed, to_worker, child_closed,
                   error_queue, workerv>>

\* reset_wait, step_wait once every worker has replied.
WaitRecv(command) ==
    /\ CanCall
    /\ wait_entry(command) = "pass"
    /\ poll
    /\ ncalls' = ncalls + 1
    /\ to_parent' = after_recv
    /\ async_state' = state_after_recv(recv_all)
    /\ IF raise_if_errors(recv_all)
       THEN /\ error_queue' = <<>>
            /\ last' = Call(command \o "_wait", "WorkerError",
                            wait_result(recv_all), recv_all, drained_names)
       ELSE /\ UNCHANGED error_queue
            /\ last' = Call(command \o "_wait", "ok",
                            wait_result(recv_all), recv_all, {})
    /\ UNCHANGED <<inputs, ppc, spawned, nready, closed, to_worker, child_closed,
                   workerv>>

ResetWait == WaitRejected("reset") \/ WaitTimeout("reset") \/ WaitRecv("reset")

StepWait == WaitRejected("step") \/ WaitTimeout("step") \/ WaitRecv("step")

\* seed, up to line 125: the entry checks, then one seed command per worker.
SeedSend ==
    /\ CanCall
    /\ ncalls' = ncalls + 1
    /\ IF async_entry = "pass"
       THEN /\ to_worker' = send_all("seed", ncalls + 1)
            /\ ppc' = "in_seed"
            /\ last' = Sending(Pending("seed"), ncalls + 1)
       ELSE /\ last' = Call("seed", async_entry, <<>>, <<>>, {})
            /\ UNCHANGED <<to_worker, ppc>>
    /\ UNCHANGED <<inputs, spawned, nready, async_state, closed, to_parent,
                   child_closed, error_queue, workerv>>

\* Lines 126-129: what seed makes of the replies it read.
seed_outcome(replies) ==
    IF Len(replies) < N THEN "EOFError"
    ELSE IF raise_if_errors(replies) THEN "WorkerError"
    ELSE "ok"

\* Lines 126-129: seed reads one reply per pipe, without polling first.
SeedRecv ==
    /\ ppc = "in_seed"
    /\ RecvEnds
    /\ ppc' = "run"
    /\ to_parent' = after_recv
    /\ LET out == seed_outcome(recv_all) IN
       /\ last' = Return(out, IF out = "ok" THEN recv_all ELSE <<>>, recv_all,
                         IF out = "WorkerError" THEN drained_names ELSE {})
       /\ error_queue' = IF out = "WorkerError" THEN <<>> ELSE error_queue
    /\ UNCHANGED <<inputs, spawned, nready, async_state, closed, ncalls, to_worker,
                   child_closed, workerv>>

\* A close() that does not look at whether the pool is closed already.
close_entry_unchecked == "send"

\* close() on a closed pool returns at once.
close_entry == IF closed THEN "return" ELSE "send"

\* The worker that is sent a command of no known kind.
UnknownTargets == {0}

\* A command the worker loop has no branch for, written to one worker's
\* pipe (self.parent_pipes is a public attribute of the pool; lines 287-288
\* are the branch that receives it).
SendUnknown(i) ==
    /\ CanCall
    /\ ~closed
    /\ ncalls' = ncalls + 1
    /\ to_worker' = [to_worker EXCEPT ![i] =
                        Append(@, [cmd |-> "unknown", b |-> ncalls + 1])]
    /\ last' = Call("pipe_send", "ok", <<>>, <<>>, {})
    /\ UNCHANGED <<inputs, ppc, spawned, nready, async_state, closed, to_parent,
                   child_closed, error_queue, workerv>>

\* close(): a no-op on a closed pool; otherwise Close goes to every worker.
CloseSend ==
    /\ CanCall
    /\ ncalls' = ncalls + 1
    /\ IF close_entry = "return"
       THEN /\ last' = Call("close", "ok", <<>>, <<>>, {})
            /\ UNCHANGED <<to_worker, ppc>>
       ELSE /\ to_worker' = send_all("close", ncalls + 1)
            /\ ppc' = "closing"
            /\ last' = Pending("close")
    /\ UNCHANGED <<inputs, spawned, nready, async_state, closed, to_parent,
                   child_closed, error_queue, workerv>>

\* close() joins every worker, then marks the pool closed.
CloseJoin ==
    /\ ppc = "closing"
    /\ \A i \in Workers : wpc[i] = "exited"
    /\ closed' = TRUE
    /\ ppc' = "run"
    /\ last' = Return("ok", <<>>, <<>>, {})
    /\ UNCHANGED <<inputs, spawned, nready, async_state, ncalls, to_worker, to_parent,
                   child_closed, error_queue, workerv>>

Next ==
    \/ CtorValidate
    \/ CtorSpawn
    \/ CtorReady
    \/ CtorSpaces
    \/ ResetAsync
    \/ StepAsync
    \/ ResetWait
    \/ StepWait
    \/ SeedSend
    \/ SeedRecv
    \/ CloseSend
    \/ CloseJoin
    \/ \E i \in UnknownTargets : SendUnknown(i)
    \/ \E i \in Workers : WorkerStep(i)
    \/ \E i \in InterruptTargets : WorkerInterrupt(i)

Spec == Init /\ [][Next]_vars

\* Every worker process keeps running: a step it can take, it takes; and a
\* close() whose workers have all ended returns.
FairSpec ==
    /\ Spec
    /\ \A i \in Workers : WF_vars(WorkerStep(i))
    /\ WF_vars(CloseJoin)


\* ------------------------------------------------------------ the claims

\* The batched calls that read one reply per worker.
BatchWaits == {"reset_wait", "step_wait", "seed"}

\* The pool has been handed to its caller: the constructor returned.
Constructed == ppc \in {"run", "in_seed", "closing"}

\* The step is a pool call.
IsCall == ncalls' = ncalls + 1

\* The state a wait of the given name expects.
Expected(op) == IF op = "reset_wait" THEN "WAITING_RESET" ELSE "WAITING_STEP"

\* C1: with no worker interrupted or sent an unknown command, whenever a
\* batched wait (reset_wait, step_wait, seed) has consumed a reply flagged
\* success = False (the worker's Actor raised), the call failed with the
\* aggregated worker error, the error names every worker whose consumed
\* reply was flagged, and nothing was returned to the caller.
C1_BatchAtomic ==
    (/\ last.op \in BatchWaits
     /\ Failing(last.took) # {}
     /\ \A i \in Workers : exc[i] \in {"none", "Exception"})
    => (/\ last.out = "WorkerError"
        /\ Failing(last.took) \subseteq last.names
        /\ last.res = <<>>)

\* C2: a successful reset_wait or step_wait returns exactly N entries, and
\* entry i is a reply produced by worker i.
C2_PositionalOrder ==
    (last.op \in {"reset_wait", "step_wait"} /\ last.out = "ok") =>
        /\ Len(last.res) = N
        /\ \A k \in 1 .. N : last.res[k].w = k - 1

\* C2, witness: a step batch whose N replies were returned.
C2_Witness ==
    /\ last.op = "step_wait"
    /\ last.out = "ok"
    /\ Len(last.res) = N
    /\ \A k \in 1 .. N : last.res[k].kind = "step"

\* C3: a worker never sends more replies than it received commands, and
\* every command a worker has received is eventually answered: the number of
\* replies catches up with the number of commands.
C3_ExactlyOneReply ==
    /\ [](\A i \in Workers : sent[i] <= got[i] /\ got[i] <= sent[i] + 1)
    /\ \A i \in Workers : (got[i] > sent[i]) ~> (got[i] = sent[i])

\* C3, witness: a worker that answered its second command with a failure
\* reply, after its Actor raised.
C3_Witness ==
    \E i \in Workers :
        /\ got[i] = 2
        /\ sent[i] = 2
        /\ exc[i] = "Exception"
        /\ wpc[i] = "finally"

\* Commands sent to worker i that no reply consumed by the pool has answered:
\* those still in the pipe, the one in progress, and those whose reply the
\* pool has not read.
Unanswered(i) ==
    Len(to_worker[i])
    + (IF cur[i] = NoCmd THEN 0 ELSE 1)
    + Cardinality({k \in 1 .. Len(to_parent[i]) :
                      to_parent[i][k].kind # "ready" /\ to_parent[i][k].b # -1})

\* Some worker was sent a command of no known kind, past the pool's own
\* operations.
UnknownSent ==
    \E i \in Workers :
        \/ exc[i] = "KeyError"
        \/ cur[i].cmd = "unknown"
        \/ \E k \in 1 .. Len(to_worker[i]) : to_worker[i][k].cmd = "unknown"

\* C4: between the calls on a pool that is not closed and was driven through
\* its own operations only, no worker has more than one unanswered command.
C4_OneInFlight ==
    (ppc = "run" /\ ~closed /\ ~UnknownSent)
        => \A i \in Workers : Unanswered(i) <= 1

\* C5, as stated: a reset_wait or step_wait called in any state other than
\* its Awaiting state fails with NoAsyncCallError, touches no pipe and leaves
\* the state as it was.
C5_AsStated ==
    [][(IsCall /\ last'.op \in {"reset_wait", "step_wait"}
          /\ last'.pre # Expected(last'.op))
       => (/\ last'.out = "NoAsyncCallError"
           /\ last'.res = <<>>
           /\ to_parent' = to_parent
           /\ async_state' = async_state
           /\ closed' = closed)]_vars

\* C5, amended: on a pool that is not closed, a reset_wait or step_wait
\* called in any state other than its Awaiting state fails with
\* NoAsyncCallError, touches no pipe and leaves the state as it was.
C5_WaitWithoutAsync ==
    [][(IsCall /\ last'.op \in {"reset_wait", "step_wait"}
          /\ last'.pre \notin {Expected(last'.op), "CLOSED"})
       => (/\ last'.out = "NoAsyncCallError"
           /\ last'.res = <<>>
           /\ to_parent' = to_parent
           /\ async_state' = async_state
           /\ closed' = closed)]_vars

\* C5, witness: step_wait on a fresh pool, with no step_async before it.
C5_Witness ==
    /\ last.op = "step_wait"
    /\ last.pre = "DEFAULT"
    /\ last.out = "NoAsyncCallError"
    /\ last.prev = <<"init", "ok">>

\* The command an async call of the given name sends.
CommandOf(op) == IF op = "reset_async" THEN "reset" ELSE "step"

\* C6: reset_async or step_async called while the pool is not Idle sends
\* nothing and leaves the state as it was; called while it is Idle, it adds
\* its command to every worker's pipe and moves to the matching Awaiting
\* state.
C6_AsyncOnlyWhenIdle ==
    [][(IsCall /\ last'.op \in {"reset_async", "step_async"})
       => IF last'.pre # "DEFAULT"
          THEN /\ last'.out # "ok"
               /\ to_worker' = to_worker
               /\ async_state' = async_state
          ELSE /\ last'.out = "ok"
               /\ \A i \in Workers :
                    to_worker'[i] =
                        Append(to_worker[i],
                               [cmd |-> CommandOf(last'.op), b |-> ncalls'])
               /\ async_state' = Waiting(CommandOf(last'.op))]_vars

\* C6, witness: a step_async refused because a reset batch was pending, with
\* the reset batch still the pending one.
C6_Witness ==
    /\ last.op = "step_async"
    /\ last.pre = "WAITING_RESET"
    /\ last.out = "AlreadyPendingCallError"
    /\ async_state = "WAITING_RESET"

\* C7: a reset_wait or step_wait that passes its entry checks while some
\* worker has not replied fails with TimeoutError, sets the state to DEFAULT,
\* consumes no reply and returns nothing.
C7_TimeoutLeavesReplies ==
    [][(IsCall /\ last'.op \in {"reset_wait", "step_wait"}
          /\ last'.pre = Expected(last'.op) /\ ~poll)
       => (/\ last'.out = "TimeoutError"
           /\ async_state' = "DEFAULT"
           /\ to_parent' = to_parent
           /\ last'.res = <<>>
           /\ last'.took = <<>>)]_vars

\* C7, witness: a step_wait that timed out while one worker's reply was
\* already waiting in its pipe.
C7_Witness ==
    /\ last.op = "step_wait"
    /\ last.out = "TimeoutError"
    /\ async_state = "DEFAULT"
    /\ \E i \in Workers : to_parent[i] # <<>> /\ Head(to_parent[i]).kind = "step"
    /\ \E i \in Workers : to_parent[i] = <<>>

\* C8, as stated: the same wait called again right after it timed out, once
\* every worker has replied, returns the batch's results.
C8_AsStated ==
    [][(IsCall /\ last.out = "TimeoutError" /\ last'.op = last.op /\ poll)
       => (last'.out = "ok" /\ Len(last'.res) = N)]_vars

\* C8, amended: the same wait called again right after it timed out, with no
\* async call in between, fails with NoAsyncCallError, reads no pipe and
\* returns nothing, whether or not the workers have replied by then.
C8_RetryNeedsAsync ==
    [][(IsCall /\ last.out = "TimeoutError" /\ last'.op = last.op)
       => (/\ last'.out = "NoAsyncCallError"
           /\ last'.res = <<>>
           /\ to_parent' = to_parent)]_vars

\* C8, witness: step_wait timed out, every worker then replied, and the
\* second step_wait was refused with the replies left in the pipes.
C8_Witness ==
    /\ last.op = "step_wait"
    /\ last.prev = <<"step_wait", "TimeoutError">>
    /\ last.out = "NoAsyncCallError"
    /\ \A i \in Workers : to_parent[i] # <<>> /\ Head(to_parent[i]).kind = "step"

\* C9: whenever the constructor has returned a pool, one process per entry
\* of the mapping was started, the constructor received N ready replies
\* flagged success, and every worker built its Actor and sent its ready
\* reply; a mapping with a throwing constructor never yields a pool.
C9_AllOrNothing ==
    Constructed =>
        /\ spawned = N
        /\ nready = N
        /\ \A i \in Workers : wpc[i] \notin {"unborn", "start", "crashed"}
        /\ \A i \in Workers : policy_constructors[i] = "ok"

\* C9, witness: a pool handed to its caller, with every worker idle in its
\* loop.
C9_Witness ==
    /\ ppc = "run"
    /\ ncalls = 0
    /\ nready = N
    /\ \A i \in Workers : wpc[i] = "poll"

\* C10: a worker whose Actor constructor threw has put an ErrorReport with
\* its index on the error queue.
C10_CtorFailureReported ==
    \A i \in Workers :
        wpc[i] = "crashed" => \E r \in reported : r.index = i

\* A worker's step just sent the reply to a step command.
StepReplied(i) == wpc[i] = "exec" /\ cur[i].cmd = "step" /\ wpc'[i] = "poll"

\* The reply a worker's step appended to its pipe.
NewReply(i) == to_parent'[i][Len(to_parent'[i])]

\* The reports in a queue that carry worker i's index.
ReportsOf(q, i) == {k \in 1 .. Len(q) : q[k].index = i}

\* C11: when the Actor raises while a worker executes reset, step or seed,
\* the worker's handler appends one report (its index, the exception kind) to
\* the error queue and then sends one reply flagged success = False that
\* answers that command; once past the handler the worker adds no further
\* report and no further reply.
C11_ActorRaiseReported ==
    [][\A i \in Workers :
        /\ (/\ wpc[i] = "exec" /\ MayRaise(cur[i])
            /\ wpc'[i] = "reported" /\ exc'[i] # "KeyboardInterrupt")
           => /\ error_queue' =
                    Append(error_queue, [index |-> i, kind |-> "Exception"])
              /\ to_parent'[i] = to_parent[i]
        /\ (wpc[i] = "reported" /\ exc[i] = "Exception" /\ wpc'[i] # "reported")
           => /\ to_parent'[i] = Append(to_parent[i], FailReply(i, cur[i].b))
              /\ error_queue' = error_queue
              /\ sent'[i] = sent[i] + 1
        /\ (wpc[i] \in {"finally", "exited"})
           => /\ wpc'[i] \in {"finally", "exited"}
              /\ Len(to_parent'[i]) <= Len(to_parent[i])
              /\ Cardinality(ReportsOf(error_queue', i))
                    <= Cardinality(ReportsOf(error_queue, i))]_vars

\* C11, witness: a worker whose Actor raised during a step has ended, with
\* its report on the queue and its failure reply to that step in its pipe.
C11_Witness ==
    \E i \in Workers :
        /\ exc[i] = "Exception"
        /\ wpc[i] = "exited"
        /\ ReportsOf(error_queue, i) # {}
        /\ to_parent[i] # <<>>
        /\ ~to_parent[i][Len(to_parent[i])].ok
        /\ to_parent[i][Len(to_parent[i])].b > 0
        /\ last.op = "step_async"

\* C12: with auto_reset on, the reply to a step whose done has the all-done
\* flag set carries the observation env.reset() returned, with the reward and
\* the done of that step, and leaves the Actor freshly reset; and the Actor
\* changes only while its worker executes a command, so the next step finds
\* it as the reset left it.
C12_AutoResetSubstitutes ==
    [][\A i \in Workers :
        /\ (StepReplied(i) /\ auto_reset /\ NewReply(i).val.done.all)
           => /\ to_parent'[i] = Append(to_parent[i], NewReply(i))
              /\ NewReply(i).ok
              /\ NewReply(i).val.obs = "reset_obs"
              /\ NewReply(i).val.reward = "step_reward"
              /\ actor'[i] = "fresh"
        /\ (actor'[i] # actor[i]) => wpc[i] \in {"start", "exec"}]_vars

\* C12, witness: a worker executes its next step on a freshly reset Actor,
\* the reply of its previous, episode-ending step still unread in its pipe.
C12_Witness ==
    \E i \in Workers :
        /\ auto_reset
        /\ wpc[i] = "exec"
        /\ cur[i].cmd = "step"
        /\ actor[i] = "fresh"
        /\ to_parent[i] # <<>>
        /\ Head(to_parent[i]).kind = "step"
        /\ Head(to_parent[i]).val.done.all
        /\ Head(to_parent[i]).val.obs = "reset_obs"

\* C13: every step reply whose observation was replaced by the reset
\* observation carries, in its info, the observation env.step returned.
C13_TerminalObsInInfo ==
    \A i \in Workers : \A k \in 1 .. Len(to_parent[i]) :
        (to_parent[i][k].kind = "step" /\ to_parent[i][k].val.obs = "reset_obs")
            => to_parent[i][k].val.info = "step_obs"

\* C14, as stated: a step resets the Actor exactly when auto_reset is on and
\* the done it got has the all-done flag set or every sub-agent done.
C14_AsStated ==
    [][\A i \in Workers :
        StepReplied(i) =>
            ((actor'[i] = "fresh") <=>
                (auto_reset /\ (NewReply(i).val.done.all
                                \/ NewReply(i).val.done.agents)))]_vars

\* C14, amended: a step resets the Actor exactly when auto_reset is on and
\* the done it got has the all-done flag set; the sub-agents' own flags do
\* not count.
C14_ResetsOnAllDoneFlag ==
    [][\A i \in Workers :
        StepReplied(i) =>
            /\ (actor'[i] = "fresh") <=> (auto_reset /\ NewReply(i).val.done.all)
            /\ (NewReply(i).val.obs = "reset_obs") <=> (actor'[i] = "fresh")]_vars

\* C14, witness: with auto_reset on, a step whose done has every sub-agent
\* done and the all-done flag unset was answered without a reset.
C14_Witness ==
    \E i \in Workers :
        /\ auto_reset
        /\ actor[i] = "running"
        /\ to_parent[i] # <<>>
        /\ Head(to_parent[i]).kind = "step"
        /\ Head(to_parent[i]).val.done.agents
        /\ ~Head(to_parent[i]).val.done.all
        /\ Head(to_parent[i]).val.obs = "step_obs"

\* C15: a worker that received a command of no known kind goes on running
\* its loop.
C15_UnknownKeepsRunning ==
    \A i \in Workers : exc[i] = "KeyError" => wpc[i] \notin {"finally", "exited"}

\* The wait is past its entry checks and every worker's channel holds a reply.
WaitReads == /\ IsCall
             /\ last'.op \in {"reset_wait", "step_wait"}
             /\ last'.pre = Expected(last'.op)
             /\ poll

C17_ActorClosedOnExit ==
    \A i \in Workers : wpc[i] \in {"exited", "crashed"} => env_closed[i]

\* C18: close() on a pool that is not closed adds Close to every worker's
\* pipe; a worker that executes Close replies to it and leaves its loop;
\* and a close() under way leads to every worker ended and the pool closed.
C18_CloseTerminates ==
    /\ [][(IsCall /\ last'.op = "close" /\ ~closed)
          => \A i \in Workers :
                to_worker'[i] =
                    Append(to_worker[i], [cmd |-> "close", b |-> ncalls'])]_vars
    /\ [][\A i \in Workers :
            (/\ wpc[i] = "exec" /\ cur[i].cmd = "close"
             /\ wpc'[i] # "exec" /\ exc'[i] = exc[i])
            => /\ to_parent'[i] =
                    Append(to_parent[i], Reply(TRUE, i, cur[i].b, "close", "none"))
               /\ wpc'[i] = "finally"]_vars
    /\ (ppc = "closing") ~> (closed /\ \A i \in Workers : wpc[i] = "exited")

\* C18, witness: the pool is closed, every worker has ended, and a worker's
\* reply to Close is in its pipe.
C18_Witness ==
    /\ closed
    /\ last.op = "close"
    /\ last.out = "ok"
    /\ \A i \in Workers : wpc[i] = "exited"
    /\ \E i \in Workers : \E k \in 1 .. Len(to_parent[i]) :
            to_parent[i][k].kind = "close"

\* C19: close() on a closed pool returns without an error, sends nothing,
\* joins nothing and changes nothing of the pool or of the workers.
C19_CloseIdempotent ==
    [][(IsCall /\ last'.op = "close" /\ closed)
       => /\ last'.out = "ok"
          /\ closed'
          /\ ppc' = ppc
          /\ async_state' = async_state
          /\ to_worker' = to_worker
          /\ to_parent' = to_parent
          /\ error_queue' = error_queue
          /\ workerv' = workerv]_vars

\* C19, witness: a second close() right after the first.
C19_Witness ==
    /\ last.op = "close"
    /\ last.pre = "CLOSED"
    /\ last.out = "ok"
    /\ last.prev = <<"close", "ok">>
    /\ ppc = "run"

Offending == {i \in Workers : spaces[i] # spaces[0]}

\* C21, as stated: when two workers differ in their spaces, the error of the
\* retrieval names the offending worker indices.
C21_AsStated ==
    (last.op = "init" /\ last.out = "RuntimeError") => last.names = Offending

\* C21, amended: the constructor returns a pool only if the spaces of all N
\* workers are identical; when every worker replied with its spaces and some
\* worker's spaces differ from the first worker's, the retrieval fails with
\* RuntimeError after reading all N replies, and the error names no worker
\* index.
C21_SpacesCompared ==
    /\ Constructed => Offending = {}
    /\ (/\ last.op = "init"
        /\ Len(last.took) = N
        /\ \A k \in 1 .. N : last.took[k].ok /\ last.took[k].kind = "spaces")
       => /\ (last.out = "RuntimeError") <=> (Offending # {})
          /\ (last.out = "ok") <=> (Offending = {})
          /\ last.names = {}

\* C21, witness: construction failed on two workers whose spaces differ.
C21_Witness ==
    /\ ppc = "failed"
    /\ last.op = "init"
    /\ last.out = "RuntimeError"
    /\ Len(last.took) = N
    /\ spaces[0] # spaces[N - 1]

\* C22: a seed() that returns hands back N entries, and entry i is worker
\* i's reply to a Seed command.
C22_SeedReturnsSeeds ==
    (last.op = "seed" /\ last.out = "ok") =>
        /\ Len(last.res) = N
        /\ \A k \in 1 .. N : last.res[k].w = k - 1 /\ last.res[k].kind = "seed"

\* C23: what the successful batches return is fixed by the commands sent,
\* whatever the interleaving: with no worker failed, a batch that returns
\* has the answer of every command sent so far behind it, so that the next
\* batch returns the answers to its own commands.
C23_ResultsInLockstep ==
    (/\ last.op \in BatchWaits
     /\ last.out = "ok"
     /\ \A i \in Workers : exc[i] = "none"
     /\ ~UnknownSent)
    => \A i \in Workers : Unanswered(i) = 0

\* C24: when an entry of the constructor mapping is not callable, the
\* constructor never gets past its check: no process is started, no pipe or
\* error queue carries anything, and construction fails with TypeError.
C24_ValidatedBeforeSpawn ==
    (\E i \in Workers : policy_constructors[i] = "notcallable")
    => /\ ppc \in {"new", "failed"}
       /\ spawned = 0
       /\ error_queue = <<>>
       /\ \A i \in Workers :
            /\ wpc[i] = "unborn"
            /\ to_worker[i] = <<>>
            /\ to_parent[i] = <<>>
       /\ ppc = "failed" => (last.op = "init" /\ last.out = "TypeError")

\* C24, witness: construction failed with TypeError and nothing was started.
C24_Witness ==
    /\ ppc = "failed"
    /\ last.op = "init"
    /\ last.out = "TypeError"
    /\ spawned = 0

\* C25: a worker that handles _get_spaces replies with its Actor's spaces
\* and leaves the Actor as it was: not reset, not stepped, not closed.
C25_GetSpacesReadsOnly ==
    [][\A i \in Workers :
        (/\ wpc[i] = "exec"
         /\ cur[i].cmd = "_get_spaces"
         /\ wpc'[i] = "poll")
        => /\ actor'[i] = actor[i]
           /\ env_closed'[i] = env_closed[i]
           /\ to_parent'[i] =
                Append(to_parent[i], Reply(TRUE, i, cur[i].b, "spaces", spaces[i]))]_vars

\* C25, witness: a worker has replied with its spaces and its Actor is as
\* the constructor built it.
C25_Witness ==
    \E i \in Workers :
        /\ to_parent[i] # <<>>
        /\ Head(to_parent[i]).kind = "spaces"
        /\ actor[i] = "built"
        /\ ~env_closed[i]

\* C26: every entry a successful batch returns is worker i's reply to the
\* command of that same batch.
C26_RepliesOfThisBatch ==
    (last.op \in BatchWaits /\ last.out = "ok") =>
        \A k \in 1 .. Len(last.res) :
            /\ last.res[k].w = k - 1
            /\ last.res[k].b = last.batch

\* C27: a reset_wait or step_wait that fails with the aggregated worker
\* error has taken one reply from each of the N pipes and leaves the pending
\* state as it was; the state goes back to DEFAULT only in a wait that
\* succeeds or times out.
C27_FailedWaitStaysPending ==
    [][/\ (IsCall /\ last'.op \in {"reset_wait", "step_wait"}
              /\ last'.out = "WorkerError")
          => /\ async_state = Expected(last'.op)
             /\ async_state' = async_state
             /\ Len(last'.took) = N
             /\ \A i \in Workers :
                    /\ to_parent[i] # <<>>
                    /\ to_parent'[i] = Tail(to_parent[i])
       /\ (async_state # "DEFAULT" /\ async_state' = "DEFAULT")
          => /\ IsCall
             /\ last'.op \in {"reset_wait", "step_wait"}
             /\ last'.out \in {"ok", "TimeoutError"}]_vars

\* C27, witness: a step_wait failed with the worker error after reading N
\* replies, and the pool is still waiting for the step.
C27_Witness ==
    /\ last.op = "step_wait"
    /\ last.out = "WorkerError"
    /\ Len(last.took) = N
    /\ async_state = "WAITING_STEP"

\* C28: a worker that has caught an exception sends its failure reply and
\* leaves the loop; from then on it reads no command and sends no reply, it
\* closes its Actor and its pipe, and it ends.
C28_FailedWorkerEnds ==
    /\ [][\A i \in Workers :
            /\ (wpc[i] = "reported" /\ wpc'[i] # "reported")
               => /\ wpc'[i] = "finally"
                  /\ to_parent'[i] = Append(to_parent[i], FailReply(i, cur[i].b))
            /\ (exc[i] # "none" /\ wpc[i] \in {"finally", "exited"})
               => /\ wpc'[i] \in {"finally", "exited"}
                  /\ got'[i] = got[i]
                  /\ sent'[i] = sent[i]
                  /\ Len(to_parent'[i]) <= Len(to_parent[i])
                  /\ Len(to_worker'[i]) >= Len(to_worker[i])
            /\ (exc[i] # "none" /\ wpc[i] = "finally" /\ wpc'[i] = "exited")
               => env_closed'[i] /\ child_closed'[i]]_vars
    /\ \A i \in Workers :
            (exc[i] # "none" /\ wpc[i] = "finally") ~> (wpc[i] = "exited")

\* C28, witness: a worker that failed has ended, its Actor and its pipe are
\* closed, and a command sent to it since lies unread.
C28_Witness ==
    \E i \in Workers :
        /\ exc[i] # "none"
        /\ wpc[i] = "exited"
        /\ env_closed[i]
        /\ child_closed[i]
        /\ to_worker[i] # <<>>

\* A report with the worker's index has been put on the error queue.
Reported(i) == \E r \in reported : r.index = i

\* C29: a worker that has caught an exception has put its report on the
\* error queue before it sends the failure reply: every reply flagged
\* success = False, in a pipe or read by the pool, comes from a worker whose
\* report was put.
C29_ReportBeforeReply ==
    /\ \A i \in Workers :
        /\ wpc[i] = "reported" => Reported(i)
        /\ \A k \in 1 .. Len(to_parent[i]) :
                ~to_parent[i][k].ok => Reported(to_parent[i][k].w)
    /\ \A k \in 1 .. Len(last.took) :
            ~last.took[k].ok => Reported(last.took[k].w)

\* C29, witness: the pool has read a reply flagged success = False from a
\* worker whose report was put on the queue.
C29_Witness ==
    /\ last.out = "WorkerError"
    /\ \E k \in 1 .. Len(last.took) :
            ~last.took[k].ok /\ Reported(last.took[k].w)

====
